---- MODULE Spec2Model ----
(***************************************************************************)
(* Model of src/src/sift-driver.c: the SIFT command line driver.           *)
(*                                                                         *)
(* main() is a sequential program; the model follows its control flow     *)
(* with a program counter `pc`.  Everything main() calls but does not     *)
(* define (getopt_long, fopen, malloc, the PGM codec, the SIFT filter,    *)
(* the VlFileMeta helpers of generic-driver.h) is the environment: each   *)
(* call returns one of the outcomes its interface allows, chosen with \E. *)
(*                                                                         *)
(* The files main writes for the current image are kept as (number of     *)
(* opens, number of records, last record of the current detection pass);  *)
(* they are cleared when the next image starts, since every image writes  *)
(* to files named after its own basename.  The snapshot files of an       *)
(* octave are kept with the call of save_gss that writes them.            *)
(***************************************************************************)
EXTENDS Integers, Sequences, FiniteSets, TLC

\* ------------------------------------------------------------- bounds
NumImages  == 2   \* file names left on the command line after the options
MaxOpts    == 2   \* options getopt_long delivers before the end of the list
MaxOctaves == 2   \* octaves the filter can deliver for one image
MaxKeys    == 2   \* keypoints vl_sift_detect can find in one octave

\* ------------------------------------------------- program constants
MaxAngles == 4    \* double angles [4]
S0        == 3    \* int S = 3
O0        == -1   \* int O = -1
omin0     == -1   \* int omin = -1

VL_ERR_OK       == "VL_ERR_OK"
VL_ERR_OVERFLOW == "VL_ERR_OVERFLOW"
VL_ERR_ALLOC    == "VL_ERR_ALLOC"
VL_ERR_BAD_ARG  == "VL_ERR_BAD_ARG"
VL_ERR_IO       == "VL_ERR_IO"
VL_ERR_EOF      == "VL_ERR_EOF"
\* error code of the PGM codec for a corrupt pixel block
VL_ERR_PGM      == "VL_ERR_PGM"
\* a non-zero value read where no value was returned
INDETERMINATE   == "INDETERMINATE"

\* frm, dsc, met, gss.  The fifth VlFileMeta, ifr, is written by the option
\* --read-frames and never read: it is not part of the state.  The same holds
\* of which only selects what is printed on stdout, and of the
\* protocol and the pattern of a sink.
Sinks == {"frm", "dsc", "met", "gss"}

VARIABLES
  pc,         \* position in main / save_gss
  status,     \* how the process ended: "running", 0, 1 or "abort"
  err,        \* main: err
  exit_code,  \* main: exit_code
  O, S, omin, \* main: algorithm parameters
  fm,         \* frm, dsc, met, gss: [active, file]
  nopts,      \* options consumed so far by getopt_long (optind)
  given,      \* sink options that appeared on the command line
  invalid,    \* the option loop met an invalid option or argument
  optword,    \* argv [optind - 1]: the option getopt_long took last
  optarg,     \* getopt: optarg, the text of its argument
  idx,        \* file names consumed so far by `while (argc--)`
  order,      \* the file names in the order their processing began
  in,         \* FILE *in is open
  data,       \* data buffer is allocated
  fdata,      \* fdata buffer is allocated
  filt,       \* the filter: [alloc, S, o_cur, noct]
  first,      \* main: first
  nkeys, k,   \* the keypoint loop
  gs,         \* the call of save_gss: its locals s, err, buffer and the
              \* files it wrote: opens, n (images written), names
  fs,         \* the files of the current image: sink -> [opens, n, last]
  octres,     \* what the last octave step of this image returned
  steps,      \* octave steps invoked for this image
  passes,     \* detection passes (vl_sift_detect) run for this image
  expected,   \* sum of the orientation counts the filter returned so far
  fault,      \* the fatal condition the environment raised for this image
  faulted,    \* some image so far met a fatal condition
  failed,     \* some image so far ended with a diagnostic on stderr
  exit_before \* exit_code when the current image began

vars == << pc, status, err, exit_code, O, S, omin, fm, nopts, given, invalid,
           optword, optarg,
           idx, order, in, data, fdata, filt, first, nkeys, k,
           gs, fs, octres, steps, passes, expected, fault, faulted, failed,
           exit_before >>

config == << O, S, omin, fm, nopts, given, invalid, optword, optarg >>
batch  == << exit_code, idx, order, faulted, failed, exit_before >>
image  == << in, data, fdata, filt, first, octres, steps, fault >>
loops  == << nkeys, k, expected, passes >>

\* ------------------------------------------------------- initial state
\* No option was taken yet; an option without an argument.
NoWord == [dash |-> 0, name |-> ""]
NoArg  == "(null)"

NoFile == [opens |-> 0, n |-> 0, last |-> << >>]
NoFilt == [alloc |-> FALSE, S |-> 0, o_cur |-> 0, noct |-> 0]
NoGss  == [s |-> 0, err |-> VL_ERR_OK, buffer |-> FALSE,
           opens |-> 0, n |-> 0, names |-> << >>]
Files  == {"frm", "dsc", "met"}

\* frm as if it were declared like the other sinks.
frm0_Inactive == [active |-> FALSE, file |-> FALSE]

frm0 == [active |-> TRUE,  file |-> FALSE]
dsc0 == [active |-> FALSE, file |-> FALSE]
met0 == [active |-> FALSE, file |-> FALSE]
gss0 == [active |-> FALSE, file |-> FALSE]

Init ==
  /\ pc = "parse"
  /\ status = "running"
  /\ err = VL_ERR_OK
  /\ exit_code = 0
  /\ O = O0 /\ S = S0 /\ omin = omin0
  /\ fm = [s \in Sinks |-> CASE s = "frm" -> frm0
                             [] s = "dsc" -> dsc0
                             [] s = "met" -> met0
                             [] s = "gss" -> gss0]
  /\ nopts = 0
  /\ given = {}
  /\ invalid = FALSE
  /\ optword = NoWord /\ optarg = NoArg
  /\ idx = 0
  /\ order = << >>
  /\ in = FALSE /\ data = FALSE /\ fdata = FALSE
  /\ filt = NoFilt
  /\ first = FALSE
  /\ nkeys = 0 /\ k = 0
  /\ gs = NoGss
  /\ fs = [s \in Files |-> NoFile]
  /\ octres = "none" /\ steps = 0 /\ passes = 0
  /\ expected = 0
  /\ fault = "none"
  /\ faulted = FALSE
  /\ failed = FALSE
  /\ exit_before = 0

\* ------------------------------------------------------ option parsing
\* The option string handed to getopt_long: "vhd:p".
optstring ==
  { [name |-> "v", has_arg |-> "no"],
    [name |-> "h", has_arg |-> "no"],
    [name |-> "d", has_arg |-> "required"],
    [name |-> "p", has_arg |-> "no"] }

\* The characters of the option string handed to getopt_long.
ShortOpts == {e.name : e \in optstring}

longopts ==
  { [name |-> "verbose",      has_arg |-> "no",       val |-> "v"],
    [name |-> "help",         has_arg |-> "no",       val |-> "h"],
    [name |-> "octaves",      has_arg |-> "required", val |-> "O"],
    [name |-> "levels",       has_arg |-> "required", val |-> "S"],
    [name |-> "version",      has_arg |-> "no",       val |-> "opt_version"],
    [name |-> "meta",         has_arg |-> "optional", val |-> "opt_meta"],
    [name |-> "frames",       has_arg |-> "optional", val |-> "opt_frames"],
    [name |-> "descriptors",  has_arg |-> "optional", val |-> "opt_descriptors"],
    [name |-> "gss",          has_arg |-> "optional", val |-> "opt_gss"],
    [name |-> "first-octave", has_arg |-> "required", val |-> "opt_first_octave"],
    [name |-> "edges-tresh",  has_arg |-> "required", val |-> "opt_edges_tresh"],
    [name |-> "peaks-tresh",  has_arg |-> "required", val |-> "opt_peaks_tresh"],
    [name |-> "read-frames",  has_arg |-> "required", val |-> "opt_read_frames"],
    [name |-> "orientations", has_arg |-> "required", val |-> "opt_orientations"] }

\* The val column of longopts.
LongOpts == {e.val : e \in longopts}

\* What getopt_long can return before the end of the list: '?' for an
\* unknown option or a missing argument (the option string does not begin
\* with ':', so ':' is never returned), the character of a short option, the
\* val of a long option (every flag pointer of longopts is 0, so 0 is never
\* returned).
GetoptCodes == {"?"} \cup ShortOpts \cup LongOpts

\* The case labels of the switch.
Cases == {"?", ":", "h", "v", "opt_version", "opt_frames", "opt_descriptors",
          "opt_meta", "opt_read_frames", "opt_gss", "O", "S",
          "opt_first_octave", "opt_edges_tresh", "opt_peaks_tresh"}

\* The texts an argument of a numeric option is drawn from.
NumArgs == {"1", "-1", "x", "", "1x"}

\* The text of an argument that is not read as a number.
Text == "spec"

\* The options a command line is made of: -c for the letters of the option
\* string and for O and S, --name for the names of longopts and for a name
\* that is not in the table.
Words ==
  [dash : {1}, name : {"v", "h", "d", "p", "O", "S"}]
    \cup [dash : {2}, name : {e.name : e \in longopts} \cup {"bogus"}]

\* What can follow option w on the command line.
Args(w) ==
  CASE w.name \in {"O", "S", "octaves", "levels", "first-octave",
                   "edges-tresh", "peaks-tresh"}          -> NumArgs \cup {NoArg}
    [] w.name \in {"d", "meta", "frames", "descriptors", "gss",
                   "read-frames", "orientations"}         -> {Text, NoArg}
    [] OTHER                                              -> {NoArg}

\* getopt_long for option w followed by a: the letter of a short option of
\* the option string, the val of a long option of the table, '?' for an
\* option that is in neither and for a missing mandatory argument.
getopt_long(w, a) ==
  LET table == IF w.dash = 1
                 THEN {[name |-> e.name, has_arg |-> e.has_arg, val |-> e.name] :
                         e \in optstring}
                 ELSE longopts
      hit   == {e \in table : e.name = w.name}
      e     == CHOOSE x \in hit : TRUE
  IN  IF hit = {} THEN "?"
      ELSE IF e.has_arg = "required" /\ a = NoArg THEN "?"
      ELSE e.val

\* The texts that are not a non-negative number.
NotANumber == {"-1", "x", "", "1x"}

\* sscanf (text, "%d", &v): the number of conversions and the value of v
\* afterwards.  At the end of the text before any conversion sscanf returns
\* EOF (-1) and leaves v alone; a conversion ends at the first character
\* that is not part of a number.
sscanf(text, v) ==
  CASE text = ""   -> [n |-> -1, v |-> v]
    [] text = "x"  -> [n |-> 0,  v |-> v]
    [] text = "1"  -> [n |-> 1,  v |-> 1]
    [] text = "1x" -> [n |-> 1,  v |-> 1]
    [] text = "-1" -> [n |-> 1,  v |-> -1]

\* vl_file_meta_parse: the error code and the protocol of the sink afterwards.
FileMetaParseResults ==
  { [err |-> VL_ERR_OK,      ascii |-> TRUE],
    [err |-> VL_ERR_OK,      ascii |-> FALSE],
    [err |-> VL_ERR_BAD_ARG, ascii |-> TRUE] }

\* vl_file_meta_parse marks the sink as wanted.
vl_file_meta_parse(s) == [fm EXCEPT ![s].active = TRUE]

\* One more iteration of `while (!err)` in which getopt_long returns ch.
Getopt(ch) ==
  /\ pc = "parse"
  /\ err = VL_ERR_OK
  /\ nopts < MaxOpts
  /\ ch \in GetoptCodes
  /\ nopts' = nopts + 1
  /\ \E w \in Words : \E a \in Args(w) :
       /\ getopt_long(w, a) = ch
       /\ optword' = w
       /\ optarg' = a

\* ERR(...): err = VL_ERR_BAD_ARG and the loop ends.
ERR == err' = VL_ERR_BAD_ARG /\ pc' = "check"

NoERR == err' = VL_ERR_OK /\ pc' = "parse"

Untouched == UNCHANGED << status, batch, image, loops, gs, fs >>

OptInvalid ==
  /\ \E ch \in {"?", ":"} : Getopt(ch)
  /\ ERR
  /\ invalid' = TRUE
  /\ UNCHANGED << O, S, omin, fm, given >>
  /\ Untouched

OptHelp ==
  /\ Getopt("h")
  /\ status' = 0
  /\ pc' = "exited"
  /\ UNCHANGED << err, O, S, omin, fm, given, invalid >>
  /\ UNCHANGED << batch, image, loops, gs, fs >>

\* ++ verbose
OptVerbose ==
  /\ Getopt("v")
  /\ NoERR
  /\ UNCHANGED << O, S, omin, fm, given, invalid >>
  /\ Untouched

OptVersion ==
  /\ Getopt("opt_version")
  /\ status' = 0
  /\ pc' = "exited"
  /\ UNCHANGED << err, O, S, omin, fm, given, invalid >>
  /\ UNCHANGED << batch, image, loops, gs, fs >>

\* case opt_frames, opt_descriptors, opt_gss
OptSink(ch, s) ==
  /\ Getopt(ch)
  /\ \E r \in FileMetaParseResults :
       /\ fm' = vl_file_meta_parse(s)
       /\ invalid' = (invalid \/ r.err # VL_ERR_OK)
       /\ IF r.err # VL_ERR_OK THEN ERR ELSE NoERR
  /\ given' = given \cup {s}
  /\ UNCHANGED << O, S, omin >>
  /\ Untouched

OptFrames      == OptSink("opt_frames", "frm")
OptDescriptors == OptSink("opt_descriptors", "dsc")
OptGss         == OptSink("opt_gss", "gss")

\* case opt_read_frames: ifr is parsed like the other sinks.
OptReadFrames ==
  /\ Getopt("opt_read_frames")
  /\ \E r \in FileMetaParseResults :
       /\ invalid' = (invalid \/ r.err # VL_ERR_OK)
       /\ IF r.err # VL_ERR_OK THEN ERR ELSE NoERR
  /\ UNCHANGED << O, S, omin, fm, given >>
  /\ Untouched

OptMeta ==
  /\ Getopt("opt_meta")
  /\ \E r \in FileMetaParseResults :
       /\ fm' = vl_file_meta_parse("met")
       /\ invalid' = (invalid \/ r.err # VL_ERR_OK \/ ~r.ascii)
       /\ IF r.err # VL_ERR_OK \/ ~r.ascii THEN ERR ELSE NoERR
  /\ given' = given \cup {"met"}
  /\ UNCHANGED << O, S, omin >>
  /\ Untouched

OptOctaves ==
  /\ Getopt("O")
  /\ LET r == sscanf(optarg', O) IN
       /\ O' = r.v
       /\ invalid' = (invalid \/ optarg' \in NotANumber)
       /\ IF r.n = 0 \/ r.v < 0 THEN ERR ELSE NoERR
  /\ UNCHANGED << S, omin, fm, given >>
  /\ Untouched

OptLevels ==
  /\ Getopt("S")
  /\ LET r == sscanf(optarg', S) IN
       /\ S' = r.v
       /\ invalid' = (invalid \/ optarg' \in NotANumber)
       /\ IF r.n = 0 \/ r.v < 0 THEN ERR ELSE NoERR
  /\ UNCHANGED << O, omin, fm, given >>
  /\ Untouched

OptFirstOctave ==
  /\ Getopt("opt_first_octave")
  /\ LET r == sscanf(optarg', omin) IN
       /\ omin' = r.v
       /\ invalid' = (invalid \/ optarg' \in NotANumber)
       /\ IF r.n = 0 \/ r.v < 0 THEN ERR ELSE NoERR
  /\ UNCHANGED << O, S, fm, given >>
  /\ Untouched

\* case opt_edges_tresh, opt_peaks_tresh.  The threshold is 2.0 or a value
\* that passed this test, and nothing reads it after the options are parsed:
\* it is a local of the step.
OptTresh(ch) ==
  /\ Getopt(ch)
  /\ LET r == sscanf(optarg', 2) IN
       /\ invalid' = (invalid \/ optarg' \in NotANumber)
       /\ IF r.n = 0 \/ r.v < 0 THEN ERR ELSE NoERR
  /\ UNCHANGED << O, S, omin, fm, given >>
  /\ Untouched

OptEdgesTresh == OptTresh("opt_edges_tresh")
OptPeaksTresh == OptTresh("opt_peaks_tresh")

\* case 0, default: assert (0) ends the process with SIGABRT; in a build
\* with NDEBUG it does nothing and the option is skipped.
OptDefault ==
  /\ \E ch \in GetoptCodes \ Cases : Getopt(ch)
  /\ \E ndebug \in BOOLEAN :
       IF ndebug
         THEN status' = status /\ pc' = "parse"
         ELSE status' = "abort" /\ pc' = "aborted"
  /\ UNCHANGED << err, O, S, omin, fm, given, invalid >>
  /\ UNCHANGED << batch, image, loops, gs, fs >>

\* getopt_long returns -1: end of the option list.
EndOfOptions ==
  /\ pc = "parse"
  /\ err = VL_ERR_OK
  /\ pc' = "check"
  /\ UNCHANGED << status, err, config, batch, image, loops, gs, fs >>

\* check for parsing errors; argc -= optind, argv += optind: from here on
\* the argument vector begins at the first file name and nothing reads what
\* the option loop left behind.
CheckParse ==
  /\ pc = "check"
  /\ IF err # VL_ERR_OK
       THEN /\ status' = 1 /\ pc' = "exited"
            /\ UNCHANGED << nopts, invalid, optword, optarg >>
       ELSE /\ status' = status /\ pc' = "loop"
            /\ nopts' = 0 /\ invalid' = FALSE
            /\ optword' = NoWord /\ optarg' = NoArg
  /\ UNCHANGED << err, O, S, omin, fm, given, batch, image, loops, gs, fs >>

ParseOptions ==
  \/ OptInvalid \/ OptHelp \/ OptVerbose \/ OptVersion
  \/ OptFrames \/ OptDescriptors \/ OptMeta \/ OptReadFrames \/ OptGss
  \/ OptOctaves \/ OptLevels \/ OptFirstOctave
  \/ OptEdgesTresh \/ OptPeaksTresh
  \/ OptDefault \/ EndOfOptions \/ CheckParse

\* ------------------------------------------------------ VlFileMeta
\* vl_file_meta_open: what it can return for sink s.  An inactive sink is
\* left untouched and the call succeeds.
FileMetaOpenResults(s) ==
  IF fm[s].active THEN {VL_ERR_OK, VL_ERR_OVERFLOW, VL_ERR_IO} ELSE {VL_ERR_OK}

\* vl_file_meta_open returning r: the sinks afterwards.
vl_file_meta_open(s, r) ==
  IF fm[s].active /\ r = VL_ERR_OK THEN [fm EXCEPT ![s].file = TRUE] ELSE fm

\* vl_file_meta_close of every sink of ss, on the sinks f: idempotent.
vl_file_meta_close(f, ss) ==
  [s \in Sinks |-> IF s \in ss THEN [f[s] EXCEPT !.file = FALSE] ELSE f[s]]

\* The files after vl_file_meta_open of sink s returned r: fopen (name, "w")
\* creates or truncates the file.
Opened(s, r) ==
  IF fm[s].active /\ r = VL_ERR_OK THEN [fs EXCEPT ![s].opens = @ + 1] ELSE fs

\* One more record written to the file of sink s.
Written(f, s, rec) == [f EXCEPT ![s].n = @ + 1, ![s].last = rec]

\* The environment raises the fatal condition `kind` for this image.
Raise(kind) == fault' = kind /\ faulted' = TRUE

\* goto done with err = e after the fatal condition `kind`.
Abort(e, kind) == err' = e /\ pc' = "done" /\ Raise(kind)

\* ------------------------------------------------ one image at a time
\* while (argc--): the next file name; the locals of the body start afresh.
NextImage ==
  /\ pc = "loop"
  /\ idx < NumImages
  /\ idx' = idx + 1
  /\ order' = Append(order, idx + 1)
  /\ in' = FALSE /\ data' = FALSE /\ fdata' = FALSE /\ filt' = NoFilt
  /\ fs' = [s \in Files |-> NoFile]
  /\ gs' = NoGss
  /\ octres' = "none" /\ steps' = 0 /\ passes' = 0
  /\ fault' = "none" /\ expected' = 0
  /\ exit_before' = exit_code
  /\ pc' = "basename"
  /\ UNCHANGED << status, err, exit_code, config, faulted, failed, first,
                  nkeys, k >>

\* return exit_code
Return ==
  /\ pc = "loop"
  /\ idx = NumImages
  /\ status' = exit_code
  /\ pc' = "returned"
  /\ UNCHANGED << err, config, batch, image, loops, gs, fs >>

\* The step as if main went on after the overflow.
Basename_NoCheck ==
  /\ pc = "basename"
  /\ \E overflow \in BOOLEAN :
       IF overflow
         THEN err' = VL_ERR_OVERFLOW /\ pc' = "fopen" /\ Raise("basename")
         ELSE err' = VL_ERR_OK /\ pc' = "fopen" /\ UNCHANGED << fault, faulted >>
  /\ UNCHANGED << status, exit_code, config, idx, order, failed, exit_before, in, data,
                  fdata, filt, first, octres, steps, loops, gs, fs >>

\* get basename from filename
Basename ==
  /\ pc = "basename"
  /\ \E overflow \in BOOLEAN :
       IF overflow
         THEN Abort(VL_ERR_OVERFLOW, "basename")
         ELSE err' = VL_ERR_OK /\ pc' = "fopen" /\ UNCHANGED << fault, faulted >>
  /\ UNCHANGED << status, exit_code, config, idx, order, failed, exit_before, in, data,
                  fdata, filt, first, octres, steps, loops, gs, fs >>

\* open input file
OpenInput ==
  /\ pc = "fopen"
  /\ \E ok \in BOOLEAN :
       IF ok
         THEN in' = TRUE /\ pc' = "open_dsc" /\ UNCHANGED << err, fault, faulted >>
         ELSE in' = FALSE /\ Abort(VL_ERR_IO, "input")
  /\ UNCHANGED << status, exit_code, config, idx, order, failed, exit_before, data,
                  fdata, filt, first, octres, steps, loops, gs, fs >>

\* err = vl_file_meta_open (&s, basename, "w") ; WERR(s.name) ;
OpenOutput(s, here, next) ==
  /\ pc = here
  /\ \E r \in FileMetaOpenResults(s) :
       /\ fm' = vl_file_meta_open(s, r)
       /\ fs' = Opened(s, r)
       /\ IF r # VL_ERR_OK
            THEN Abort(r, "sink")
            ELSE err' = r /\ pc' = next /\ UNCHANGED << fault, faulted >>
  /\ UNCHANGED << status, exit_code, O, S, omin, nopts, given, invalid,
                  optword, optarg, idx,
                  order, failed, exit_before, in, data, fdata, filt, first, octres, steps,
                  loops, gs >>

OpenDsc == OpenOutput("dsc", "open_dsc", "open_frm")
OpenFrm == OpenOutput("frm", "open_frm", "open_met")
OpenMet == OpenOutput("met", "open_met", "head")

\* read source image header
ReadHeader ==
  /\ pc = "head"
  /\ \E r \in {VL_ERR_OK, VL_ERR_PGM} :
       IF r # VL_ERR_OK
         THEN Abort(VL_ERR_IO, "header")
         ELSE err' = r /\ pc' = "alloc" /\ UNCHANGED << fault, faulted >>
  /\ UNCHANGED << status, exit_code, config, idx, order, failed, exit_before, in, data,
                  fdata, filt, first, octres, steps, loops, gs, fs >>

\* allocate buffer
Allocate ==
  /\ pc = "alloc"
  /\ \E d \in BOOLEAN, f \in BOOLEAN :
       /\ data' = d
       /\ fdata' = f
       /\ IF ~d \/ ~f
            THEN Abort(VL_ERR_ALLOC, "alloc")
            ELSE pc' = "body" /\ UNCHANGED << err, fault, faulted >>
  /\ UNCHANGED << status, exit_code, config, idx, order, failed, exit_before, in, filt,
                  first, octres, steps, loops, gs, fs >>

\* read PGM
ReadBody ==
  /\ pc = "body"
  /\ \E r \in {VL_ERR_OK, VL_ERR_PGM} :
       IF r # VL_ERR_OK
         THEN Abort(r, "body")
         ELSE err' = r /\ pc' = "new" /\ UNCHANGED << fault, faulted >>
  /\ UNCHANGED << status, exit_code, config, idx, order, failed, exit_before, in, data,
                  fdata, filt, first, octres, steps, loops, gs, fs >>

\* vl_sift_new: the filter before its first octave.
vl_sift_new == [alloc |-> TRUE, S |-> S, o_cur |-> omin, noct |-> 0]

\* filt = vl_sift_new (...) ; done = 0 ; first = 1 ;
NewFilter ==
  /\ pc = "new"
  /\ \E ok \in BOOLEAN :
       IF ok
         THEN /\ filt' = vl_sift_new
              /\ first' = TRUE
              /\ pc' = "octave"
              /\ UNCHANGED << err, fault, faulted >>
         ELSE /\ filt' = NoFilt
              /\ first' = first
              /\ Abort(VL_ERR_ALLOC, "filter")
  /\ UNCHANGED << status, exit_code, config, idx, order, failed, exit_before, in, data,
                  fdata, octres, steps, loops, gs, fs >>

\* ------------------------------------------------------ the octave loop
\* What vl_sift_process_first_octave / vl_sift_process_next_octave can
\* return: success, "no more octaves", or another failure.
OctaveResults ==
  (IF filt.noct < MaxOctaves THEN {VL_ERR_OK} ELSE {})
    \cup {VL_ERR_EOF, VL_ERR_ALLOC}

\* The test as if the snapshot were never taken.
AfterOctave_NoGss == "detect"

\* if (gss.active): where main goes after a successful octave step.
AfterOctave == IF fm["gss"].active THEN "save_gss" ELSE "detect"

\* The octave step as if main kept the value of a failed step.
AfterStep_KeepErr(r) ==
  IF r # VL_ERR_OK
    THEN err' = r /\ pc' = "done"
    ELSE err' = r /\ pc' = AfterOctave

\* if (err) { err = VL_ERR_OK ; break ; }: what main does with the value r
\* of an octave step.
AfterStep(r) ==
  IF r # VL_ERR_OK
    THEN err' = VL_ERR_OK /\ pc' = "meta"
    ELSE err' = r /\ pc' = AfterOctave

\* The filter and what is known of the step after it returned r; advance is
\* how far the current octave index moves on success.
OctaveStep(r, advance) ==
  /\ filt' = IF r = VL_ERR_OK
               THEN [filt EXCEPT !.o_cur = @ + advance, !.noct = @ + 1]
               ELSE filt
  /\ octres' = CASE r = VL_ERR_OK  -> "ok"
                 [] r = VL_ERR_EOF -> "eof"
                 [] OTHER          -> "fail"
  /\ IF r \in {VL_ERR_OK, VL_ERR_EOF}
       THEN UNCHANGED << fault, faulted >>
       ELSE Raise("detector")
  /\ AfterStep(r)

\* first = 0 ; err = vl_sift_process_first_octave (filt, fdata) ;
ProcessFirstOctave ==
  /\ pc = "octave"
  /\ first
  /\ first' = FALSE
  /\ steps' = steps + 1
  /\ \E r \in OctaveResults : OctaveStep(r, 0)
  /\ UNCHANGED << status, exit_code, config, idx, order, failed, exit_before, in, data,
                  fdata, loops, gs, fs >>

\* err = vl_sift_process_next_octave (filt) ;
ProcessNextOctave ==
  /\ pc = "octave"
  /\ ~first
  /\ steps' = steps + 1
  /\ \E r \in OctaveResults : OctaveStep(r, 1)
  /\ UNCHANGED << status, exit_code, config, idx, order, failed, exit_before, in, data,
                  fdata, first, loops, gs, fs >>

\* --------------------------------------------------------- save_gss
\* Entry of save_gss up to the loop over the levels.  The copy of basename
\* into tmp cannot overflow: both buffers hold 1024 characters and main
\* has checked that basename fits.
SaveGssBegin ==
  /\ pc = "save_gss"
  /\ IF ~fm["gss"].active
       THEN /\ err' = VL_ERR_OK
            /\ gs' = NoGss
            /\ pc' = "gss_ret"
            /\ UNCHANGED << fault, faulted >>
       ELSE \E buffer \in BOOLEAN :
              /\ err' = err
              /\ IF buffer
                   THEN /\ gs' = [NoGss EXCEPT !.err = INDETERMINATE, !.buffer = TRUE]
                        /\ pc' = "save_gss_loop"
                        /\ UNCHANGED << fault, faulted >>
                   ELSE /\ gs' = [NoGss EXCEPT !.err = VL_ERR_ALLOC]
                        /\ pc' = "save_gss_quit"
                        /\ Raise("gss")
  /\ UNCHANGED << status, exit_code, config, idx, order, failed, exit_before, in, data,
                  fdata, filt, first, octres, steps, loops, fs >>

\* The characters of the decimal digits.
DigitChar(d) == << "0", "1", "2", "3", "4", "5", "6", "7", "8", "9" >>[d + 1]

RECURSIVE Decimal(_)
\* The decimal digits of n >= 0, most significant first.
Decimal(n) ==
  IF n < 10 THEN << DigitChar(n) >>
            ELSE Decimal(n \div 10) \o << DigitChar(n % 10) >>

\* The digits d filled with zeros on the left up to width w.
ZeroPad(d, w) == [i \in 1 .. (IF w > Len(d) THEN w - Len(d) ELSE 0) |-> "0"] \o d

\* The conversion %0wd of printf: the sign counts for the width.
Format0d(n, w) ==
  IF n < 0 THEN << "-" >> \o ZeroPad(Decimal(-n), w - 1)
           ELSE ZeroPad(Decimal(n), w)

\* The name as if the format were "_%d_%d".
GssName_NoPad(s) ==
  [base   |-> idx,
   suffix |-> << "_" >> \o Format0d(filt.o_cur, 1)
                \o << "_" >> \o Format0d(s, 1)]

\* snprintf (tmp + q, sizeof(tmp) - q, "_%02d_%03d", o, s): the name of the
\* file of level s of the current octave, the basename of the image
\* followed by the suffix.  The basename is that of a file name the system
\* accepts, so that the seven characters of the suffix fit into tmp.
GssName(s) ==
  [base   |-> idx,
   suffix |-> << "_" >> \o Format0d(filt.o_cur, 2)
                \o << "_" >> \o Format0d(s, 3)]

\* The call after vl_file_meta_open (fm, tmp, "w") returned ro for level
\* gs.s and, if the file is open, vl_pgm_insert returned ri.
GssLevel(ro, ri) ==
  CASE ro # VL_ERR_OK ->
         [gs EXCEPT !.err = ro]
    [] ro = VL_ERR_OK /\ ri # VL_ERR_OK ->
         [gs EXCEPT !.err = ri, !.opens = @ + 1,
                    !.names = Append(@, GssName(gs.s))]
    [] OTHER ->
         [gs EXCEPT !.err = ri, !.opens = @ + 1,
                    !.names = Append(@, GssName(gs.s)),
                    !.n = @ + 1, !.s = @ + 1]

\* One iteration of for (s = 0 ; s < S ; ++s), or the end of the loop.
SaveGssLevel ==
  /\ pc = "save_gss_loop"
  /\ IF gs.s < filt.S
       THEN \E ro \in FileMetaOpenResults("gss"), ri \in {VL_ERR_OK, VL_ERR_IO} :
              /\ gs' = GssLevel(ro, ri)
              /\ IF ro = VL_ERR_OK /\ ri = VL_ERR_OK
                   THEN /\ fm' = vl_file_meta_close(vl_file_meta_open("gss", ro), {"gss"})
                        /\ pc' = "save_gss_loop"
                        /\ UNCHANGED << fault, faulted >>
                   ELSE /\ fm' = vl_file_meta_open("gss", ro)
                        /\ pc' = "save_gss_quit"
                        /\ Raise("gss")
       ELSE /\ pc' = "save_gss_quit"
            /\ UNCHANGED << fm, gs, fault, faulted >>
  /\ UNCHANGED << status, err, exit_code, O, S, omin, nopts, given, invalid,
                  optword, optarg,
                  idx, order, failed, exit_before, in, data, fdata, filt,
                  first, octres, steps, loops, fs >>

\* What the caller can read as the value of save_gss after control reached
\* the end of the function, which returns no value.
SaveGssValues == {VL_ERR_OK, INDETERMINATE}

\* save_gss_quit: free the buffer, close the sink, fall off the end.
SaveGssQuit ==
  /\ pc = "save_gss_quit"
  /\ gs' = [gs EXCEPT !.buffer = FALSE]
  /\ fm' = vl_file_meta_close(fm, {"gss"})
  /\ \E v \in SaveGssValues : err' = v
  /\ pc' = "gss_ret"
  /\ UNCHANGED << status, exit_code, O, S, omin, nopts, given, invalid,
                  optword, optarg, batch,
                  image, loops, fs >>

\* The test as if main took the snapshot again after a successful one.
AfterGss_Again(e) == IF e # VL_ERR_OK THEN "done" ELSE "save_gss"

\* if (err) { ... goto done ; }: where main goes with the value e of
\* save_gss.
AfterGss(e) == IF e # VL_ERR_OK THEN "done" ELSE "detect"

\* err = save_gss (...) ; if (err) { ... goto done ; }
\* The call is over: its locals are gone.
GssReturn ==
  /\ pc = "gss_ret"
  /\ pc' = AfterGss(err)
  /\ gs' = NoGss
  /\ UNCHANGED << status, err, exit_code, config, batch, image, loops, fs >>

\* ------------------------------------------------- detect and emit
\* run detector; k = 0
Detect ==
  /\ pc = "detect"
  /\ \E n \in 0 .. MaxKeys : nkeys' = n
  /\ k' = 0
  /\ pc' = "keys"
  /\ passes' = passes + 1
  /\ UNCHANGED << status, err, exit_code, config, batch, image, expected,
                  gs, fs >>

\* The frame record as if x, y and sigma were read from keys + k.
FrameRecord_OwnKey(q) == [o |-> filt.o_cur, key |-> k, angle |-> << k, q >>]

\* The frame record of orientation q of keypoint k: x, y and sigma are read
\* through keys, which points to the first keypoint of the octave.
FrameRecord(q) == [o |-> filt.o_cur, key |-> 0, angle |-> << k, q >>]

\* The descriptor of keypoint k (keys + k) at its orientation q.
DescrRecord(q) == [o |-> filt.o_cur, key |-> k, angle |-> << k, q >>]

\* The body of the orientation loop as if it wrote to dsc.file unguarded.
Emit_Unguarded(f, q) ==
  LET f1 == IF fm["frm"].active THEN Written(f, "frm", FrameRecord(q)) ELSE f
  IN  Written(f1, "dsc", DescrRecord(q))

\* The files after the body of the orientation loop for orientation q, run
\* on the files f.
Emit(f, q) ==
  LET f1 == IF fm["frm"].active THEN Written(f, "frm", FrameRecord(q)) ELSE f
  IN  IF fm["dsc"].active THEN Written(f1, "dsc", DescrRecord(q)) ELSE f1

RECURSIVE EmitRecords_SkipLast(_, _, _)
\* The orientation loop as if it stopped one orientation early.
EmitRecords_SkipLast(f, q, nangles) ==
  IF q + 1 < nangles THEN EmitRecords_SkipLast(Emit(f, q), q + 1, nangles) ELSE f

RECURSIVE EmitRecords_Reversed(_, _, _)
\* The orientation loop as if it ran from the last orientation to the first.
EmitRecords_Reversed(f, q, nangles) ==
  IF q < nangles
    THEN EmitRecords_Reversed(Emit(f, nangles - 1), q, nangles - 1)
    ELSE f

RECURSIVE EmitRecords(_, _, _)
\* for each orientation: the files after the iterations q, q + 1, ... of
\* for (q = 0 ; q < nangles ; ++q), run on the files f.
EmitRecords(f, q, nangles) ==
  IF q < nangles THEN EmitRecords(Emit(f, q), q + 1, nangles) ELSE f

\* The files when the keypoint loop of an octave is over: the records of the
\* octave are in the files, and the last record kept is that of the pass
\* under way.
EndOfPass(f) == [s \in Files |-> [f[s] EXCEPT !.last = << >>]]

\* The number of orientations vl_sift_calc_keypoint_orientations can return.
Orientations == 0 .. MaxAngles

\* for each keypoint: k < nkeys and one iteration of the loop, whose locals
\* are nangles and q: the orientations of keypoint k and a record per
\* orientation; then ++k.
NextKeypoint ==
  /\ pc = "keys"
  /\ k < nkeys
  /\ \E nangles \in Orientations :
       /\ expected' = expected + nangles
       /\ fs' = EmitRecords(fs, 0, nangles)
  /\ k' = k + 1
  /\ UNCHANGED << pc, status, err, exit_code, config, batch, image, nkeys,
                  passes, gs >>

\* k < nkeys fails: the keypoint loop is over and main is back at the octave
\* step; keys, nkeys and k are locals of the iteration of while (1).
EndKeys ==
  /\ pc = "keys"
  /\ ~(k < nkeys)
  /\ fs' = EndOfPass(fs)
  /\ k' = 0 /\ nkeys' = 0
  /\ pc' = "octave"
  /\ UNCHANGED << status, err, exit_code, config, batch, image, expected,
                  passes, gs >>

\* ------------------------------------------------------- meta file
\* The meta record as if the descriptors line were written unguarded.
MetaRecord_AlwaysDescr ==
  [input |-> idx,
   lines |-> << "input", "descriptors" >>
             \o (IF fm["frm"].active THEN << "frames" >> ELSE << >>)]

\* The record main writes to the meta file.
MetaRecord ==
  [input |-> idx,
   lines |-> << "input" >>
             \o (IF fm["dsc"].active THEN << "descriptors" >> ELSE << >>)
             \o (IF fm["frm"].active THEN << "frames" >> ELSE << >>)]

WriteMeta ==
  /\ pc = "meta"
  /\ fs' = IF fm["met"].active THEN Written(fs, "met", MetaRecord) ELSE fs
  /\ pc' = "done"
  /\ UNCHANGED << status, err, exit_code, config, batch, image, loops, gs >>

\* --------------------------------------------------------- done :
\* The sinks closed at done as if the close of frm were missing.
ClosedAtDone_NoFrm == {"dsc", "met", "gss"}

\* The sinks main closes at done.
ClosedAtDone == {"frm", "dsc", "met", "gss"}

\* The report as if exit_code were left alone.
Report_Keep(e) == exit_code

\* if (err) { fprintf (stderr, ...) ; exit_code = 1 ; }
Report(e) == IF e # VL_ERR_OK THEN 1 ELSE exit_code

\* release filter, release image data, close files, report.  Nothing frees
\* fdata: the buffer stays allocated.
Done ==
  /\ pc = "done"
  /\ filt' = NoFilt
  /\ data' = FALSE
  /\ in' = FALSE
  /\ fm' = vl_file_meta_close(fm, ClosedAtDone)
  /\ exit_code' = Report(err)
  /\ failed' = (failed \/ err # VL_ERR_OK)
  /\ nkeys' = 0 /\ k' = 0
  /\ pc' = "loop"
  /\ UNCHANGED << status, err, O, S, omin, nopts, given, invalid,
                  optword, optarg, idx, order,
                  faulted, exit_before, fdata, first, octres, steps, passes, fault,
                  expected,
                  gs, fs >>

ProcessImages ==
  \/ NextImage \/ Return \/ Basename \/ OpenInput
  \/ OpenDsc \/ OpenFrm \/ OpenMet
  \/ ReadHeader \/ Allocate \/ ReadBody \/ NewFilter
  \/ ProcessFirstOctave \/ ProcessNextOctave
  \/ SaveGssBegin \/ SaveGssLevel \/ SaveGssQuit \/ GssReturn
  \/ Detect \/ NextKeypoint \/ EndKeys
  \/ WriteMeta \/ Done

Next == ParseOptions \/ ProcessImages

Spec == Init /\ [][Next]_vars

\* The loop over the file names.  main is a sequential program: as long as
\* it has a next step, it takes it.
LiveSpec == Spec /\ WF_vars(Next)

\* ============================================================ claims
\* The image that was processed last has ended.
Ended == pc \in {"loop", "returned"} /\ idx > 0

\* The octave loop of the current image ended by its break and nothing
\* failed afterwards: the image finished normally.
Finished ==
  \/ pc = "meta"
  \/ pc \in {"done", "loop", "returned"} /\ idx > 0 /\ err = VL_ERR_OK

\* The image was aborted by goto done with an error.
Aborted == pc \in {"done", "loop", "returned"} /\ idx > 0 /\ err # VL_ERR_OK

\* Line `tag` is part of meta record rec.
HasLine(rec, tag) == \E i \in 1 .. Len(rec.lines) : rec.lines[i] = tag

\* The fatal conditions main detects itself.
MainFaults == {"basename", "input", "sink", "header", "alloc", "body", "filter"}

\* C1: when the processing of an image has ended, normally or by any error,
\* none of the frames, descriptors, meta and gss sinks holds an open file:
\* no sink is open when the next image begins or when main returns.
C1_SinksClosedAfterImage ==
  pc \in {"loop", "basename", "fopen", "returned"} =>
    \A s \in Sinks : ~fm[s].file

\* C1 witness: an image that opened its descriptors and frames files was
\* aborted by an error and has ended.
C1_Witness ==
  /\ pc = "loop" /\ idx > 0 /\ err # VL_ERR_OK
  /\ fs["frm"].opens = 1 /\ fs["dsc"].opens = 1

\* C2 (as claimed): when main returns, its value is 0 or 1, and it is 0
\* exactly when no image met a fatal error.
C2_ExitCodeIffNoFatalError ==
  pc = "returned" =>
    /\ status \in {0, 1}
    /\ status = 0 <=> ~faulted

C4_InactiveSinkUntouched ==
  \A s \in Sinks :
    ~fm[s].active =>
      /\ ~fm[s].file
      /\ s \in Files => fs[s].opens = 0 /\ fs[s].n = 0
      /\ s = "gss" => gs.opens = 0 /\ gs.n = 0
      /\ s = "dsc" /\ fs["met"].n > 0 => ~HasLine(fs["met"].last, "descriptors")
      /\ s = "frm" /\ fs["met"].n > 0 => ~HasLine(fs["met"].last, "frames")

\* C4 witness: an image finished with frame records and a meta record while
\* the descriptors and gss sinks were inactive.
C4_Witness ==
  /\ pc = "loop" /\ idx > 0 /\ err = VL_ERR_OK
  /\ ~fm["dsc"].active /\ ~fm["gss"].active /\ fm["met"].active
  /\ fs["frm"].n > 0 /\ fs["met"].n = 1

\* C5 (as claimed): only "no more octaves" ends the octave loop normally;
\* after another failure of an octave step the image is aborted with a
\* non-zero error and the exit code becomes 1.
C5_DetectorFailureAborts ==
  /\ pc = "meta" => octres = "eof"
  /\ pc = "done" /\ octres = "fail" => err # VL_ERR_OK
  /\ pc = "loop" /\ octres = "fail" => exit_code = 1

\* C6 (as claimed): save_gss returns VL_ERR_OK when it wrote all S levels
\* and the error code of the failing step otherwise.
C6_SaveGssReturnsItsError ==
  pc = "gss_ret" /\ fm["gss"].active =>
    IF gs.s = filt.S THEN err = VL_ERR_OK ELSE err = gs.err

\* The options are parsed, --descriptors was given and --frames was not.
OnlyDescriptors ==
  /\ "dsc" \in given /\ "frm" \notin given
  /\ pc \notin {"parse", "check", "exited", "aborted"}

\* The places of main between the open of the frames sink and done.
FramesOpenAt ==
  {"open_met", "head", "alloc", "body", "new", "octave", "save_gss",
   "save_gss_loop", "save_gss_quit", "gss_ret", "detect", "keys", "meta"}

\* C7 (as claimed): with --descriptors given and --frames not given the
\* frames sink is inactive for every image, so that past the place where
\* main opens the sinks no frames file was opened.
C7_FramesInactive ==
  OnlyDescriptors /\ pc \in FramesOpenAt =>
    ~fm["frm"].active /\ fs["frm"].opens = 0 /\ ~fm["frm"].file

\* C7 (amended): with --descriptors given and --frames not given both sinks
\* are active, the frames sink by its initial value; once the descriptors
\* file and then the frames file were opened, the frames file stays open
\* until done.
C7_FramesActiveByDefault ==
  OnlyDescriptors =>
    /\ fm["dsc"].active /\ fm["frm"].active
    /\ pc \in FramesOpenAt => fs["frm"].opens = 1 /\ fm["frm"].file
    /\ fs["frm"].opens = 1 => fs["dsc"].opens = 1

\* C7 witness: only --descriptors was given and an image reached the meta
\* step with its frames file open.
C7_Witness ==
  /\ OnlyDescriptors /\ pc = "meta"
  /\ fs["frm"].opens = 1 /\ fm["frm"].file /\ fs["frm"].n > 0

\* C8: between two octaves and for an image that finished normally, the
\* number of records in the file of each active sink among frames and
\* descriptors is the sum of the orientation counts of all keypoints of all
\* octaves processed.
C8_RecordCountIsOrientationSum ==
  pc = "octave" \/ Finished =>
    \A s \in {"frm", "dsc"} : fm[s].active => fs[s].n = expected

\* C8 witness: an image finished after two octaves with more descriptor
\* records than one keypoint can have.
C8_Witness ==
  /\ pc = "meta" /\ filt.noct = 2 /\ fm["dsc"].active
  /\ fs["dsc"].n = expected /\ expected > MaxAngles

FirstOctaveEof == steps = 1 /\ octres = "eof"

\* C10: when the first octave step reports "no more octaves" the image
\* finishes normally: no detection pass is run, no frame or descriptor
\* record is written, the meta record is written if the meta sink is
\* active, and the image leaves the exit code as it was.
C10_TooSmallImageFinishes ==
  FirstOctaveEof =>
    /\ Finished
    /\ passes = 0 /\ expected = 0
    /\ fs["frm"].n = 0 /\ fs["dsc"].n = 0
    /\ pc # "meta" /\ fm["met"].active =>
         fs["met"].n = 1 /\ HasLine(fs["met"].last, "input")
    /\ Ended => exit_code = exit_before

\* C10 witness: such an image ended with a meta record and exit code 0.
C10_Witness ==
  /\ FirstOctaveEof /\ pc = "loop"
  /\ fm["met"].active /\ fs["met"].n = 1 /\ exit_code = 0

\* The places of save_gss.
InSaveGss == {"save_gss", "save_gss_loop", "save_gss_quit", "gss_ret"}

\* The value of a decimal digit.
DigitValue(c) == CHOOSE d \in 0 .. 9 : DigitChar(d) = c

RECURSIVE FieldValue(_)
\* The number a field of digits with an optional leading "-" stands for.
FieldValue(f) ==
  CASE Len(f) = 0   -> 0
    [] f[1] = "-"   -> 0 - FieldValue(Tail(f))
    [] OTHER        -> 10 * FieldValue(SubSeq(f, 1, Len(f) - 1))
                         + DigitValue(f[Len(f)])

\* Name nm is the basename of the current image followed by _<o>_<s>, the
\* octave in a field of width 2 and the level in a field of width 3.
IsSnapshotName(nm, o, s) ==
  /\ nm.base = idx
  /\ Len(nm.suffix) = 7
  /\ nm.suffix[1] = "_" /\ nm.suffix[4] = "_"
  /\ FieldValue(SubSeq(nm.suffix, 2, 3)) = o
  /\ FieldValue(SubSeq(nm.suffix, 5, 7)) = s

\* C11: with the gss sink active the snapshot of an octave opens one file
\* per level, in increasing level order, the i-th under the basename followed
\* by _<o>_<i-1> with the octave in width 2 and the level in width 3, and each
\* file is closed before the next level is opened; a snapshot that met no
\* failure produced exactly S files; with the sink inactive save_gss is not
\* entered and no snapshot file is produced.
C11_SnapshotFiles ==
  /\ \A i \in 1 .. Len(gs.names) :
       IsSnapshotName(gs.names[i], filt.o_cur, i - 1)
  /\ Len(gs.names) = gs.opens
  /\ pc = "save_gss_loop" =>
       ~fm["gss"].file /\ gs.opens = gs.s /\ gs.n = gs.s /\ gs.s <= filt.S
  /\ pc \in {"save_gss_quit", "gss_ret"} /\ fault # "gss" /\ fm["gss"].active =>
       gs.opens = filt.S /\ gs.n = filt.S /\ filt.S = S
  /\ ~fm["gss"].active => pc \notin InSaveGss /\ gs.opens = 0
  /\ pc \notin InSaveGss => gs = NoGss

\* C11 witness: the snapshot of the second octave of an image wrote all three
\* levels of the octave.
C11_Witness ==
  /\ pc = "gss_ret" /\ filt.noct = 2
  /\ gs.opens = 3 /\ gs.n = 3 /\ filt.S = 3

\* C12 (as claimed): once an invalid option or argument was met (unknown
\* option, missing argument, sink specification rejected, protocol of the
\* meta sink not ASCII, numeric argument negative or not a number) the
\* option loop has ended with an error and the process exits with code 1
\* before an input image or an output file was opened.
C12_InvalidOptionExits ==
  invalid =>
    \/ pc = "check" /\ err # VL_ERR_OK
    \/ /\ pc = "exited" /\ status = 1
       /\ idx = 0 /\ ~in
       /\ \A s \in Files : fs[s].opens = 0

\* The option taken last is the short flag c followed by a non-negative
\* integer.
ShortFlagWithNumber(c) ==
  /\ pc \in {"parse", "check", "exited", "aborted"}
  /\ optword = [dash |-> 1, name |-> c] /\ optarg = "1"

\* C13 (as claimed): -O <uint> and -S <uint> are accepted like --octaves and
\* --levels: given a non-negative integer, parsing goes on without error and
\* the octave count, respectively the number of levels, is that integer.
C13_ShortFlagsAccepted ==
  /\ ShortFlagWithNumber("O") => err = VL_ERR_OK /\ pc # "exited" /\ O = 1
  /\ ShortFlagWithNumber("S") => err = VL_ERR_OK /\ pc # "exited" /\ S = 1

\* C14 (as claimed): when the processing of an image has ended, the
\* detector, the raster buffer data and the working buffer fdata of that
\* image have been released.
C14_ResourcesReleased ==
  pc \in {"loop", "returned"} => ~filt.alloc /\ ~data /\ ~fdata

\* File f holds a record of the detection pass under way.
HasRecord(f) == DOMAIN f.last # {}

\* C15: within a detection pass every frame record carries x, y and sigma of
\* the first keypoint of the pass (index 0), whatever keypoint it was
\* emitted for, together with an angle index of one of the keypoints
\* processed so far in the current octave.
C15_FrameOfFirstKeypoint ==
  pc = "keys" /\ HasRecord(fs["frm"]) =>
    /\ fs["frm"].last.key = 0
    /\ fs["frm"].last.o = filt.o_cur
    /\ fs["frm"].last.angle[1] \in 0 .. k - 1
    /\ fs["frm"].last.angle[2] \in 0 .. MaxAngles - 1

\* C15 witness: the last frame record of the pass was emitted for the second
\* keypoint.
C15_Witness ==
  /\ pc = "keys" /\ HasRecord(fs["frm"])
  /\ fs["frm"].last.angle[1] = 1 /\ fs["frm"].last.key = 0

\* The places of the octave loop.
InOctaveLoop ==
  {"octave", "save_gss", "save_gss_loop", "save_gss_quit", "gss_ret",
   "detect", "keys"}

\* What holds of the counts of one image: every successful octave step was
\* followed by one detection pass, a failed step by none.
OctaveCounts ==
  /\ pc \in InOctaveLoop => steps = filt.noct /\ (first <=> steps = 0)
  /\ pc \in {"octave", "keys"} => passes = filt.noct
  /\ pc \in {"save_gss", "save_gss_loop", "save_gss_quit", "gss_ret", "detect"} =>
       passes = filt.noct - 1 /\ octres = "ok"
  /\ pc = "meta" => steps = filt.noct + 1 /\ passes = filt.noct
                     /\ octres \in {"eof", "fail"}
  /\ filt.noct >= 1 => filt.o_cur = omin + filt.noct - 1

\* What holds of every step of main inside the octave loop.
OctaveOrder ==
  /\ steps' # steps /\ steps' # 0 =>
       /\ pc = "octave" /\ steps' = steps + 1
       /\ filt'.o_cur = (IF filt'.noct > filt.noct /\ steps > 0
                           THEN filt.o_cur + 1 ELSE filt.o_cur)
  /\ pc = "octave" /\ pc' # "octave" =>
       IF octres' = "ok"
         THEN pc' = (IF fm["gss"].active THEN "save_gss" ELSE "detect")
         ELSE pc' = "meta" /\ passes' = passes /\ fs' = fs /\ gs' = gs
  /\ pc' = "save_gss" =>
       pc = "octave" /\ fm["gss"].active /\ octres' = "ok"
  /\ pc' = "detect" =>
       IF fm["gss"].active
         THEN pc = "gss_ret" /\ err = VL_ERR_OK
         ELSE pc = "octave" /\ octres' = "ok"
  /\ passes' # passes /\ passes' # 0 =>
       pc = "detect" /\ pc' = "keys" /\ passes' = passes + 1
  /\ (\E s \in {"frm", "dsc"} : fs'[s].n > fs[s].n) => pc = "keys" /\ pc' = "keys"
  /\ pc' = "octave" /\ pc # "octave" =>
       \/ pc = "new" /\ first'
       \/ pc = "keys" /\ k = nkeys

\* C16: for every image the first-octave step is the first octave step and
\* is taken once; after each successful step the snapshot is taken first
\* (if gss is active), then detection runs once, then the records of the
\* octave are emitted, and only then the next octave step is taken; after a
\* failed step there is no snapshot, no detection and no record.
C16_StateMachineOrder == [] OctaveCounts /\ [][OctaveOrder]_vars

\* C16 witness: with gss active the records of the second octave are being
\* emitted after its snapshot and its detection pass.
C16_Witness ==
  /\ pc = "keys" /\ fm["gss"].active
  /\ filt.noct = 2 /\ passes = 2 /\ k = 1 /\ fs["frm"].n > 0

\* What holds of the frames and the descriptors file when both sinks are
\* active: they hold the same number of records and their last records
\* belong to the same keypoint and orientation.
RecordsPaired ==
  fm["frm"].active /\ fm["dsc"].active =>
    /\ fs["frm"].n = fs["dsc"].n
    /\ HasRecord(fs["frm"]) <=> HasRecord(fs["dsc"])
    /\ HasRecord(fs["frm"]) =>
         /\ fs["frm"].last.angle = fs["dsc"].last.angle
         /\ fs["frm"].last.o = fs["dsc"].last.o

\* What holds of every step that writes records to the frames or the
\* descriptors file: the records are those of keypoint k of the current
\* octave, the last of them that of the last orientation, and the keypoint
\* comes after the one of the records before.
RecordsInOrder ==
  /\ \A s \in {"frm", "dsc"} :
       fs'[s].n > fs[s].n =>
         /\ fs'[s].last.o = filt.o_cur
         /\ fs'[s].last.angle = << k, fs'[s].n - fs[s].n - 1 >>
         /\ HasRecord(fs[s]) => fs[s].last.angle[1] < k
  /\ filt.alloc /\ filt'.alloc => filt'.o_cur >= filt.o_cur

\* C17: records are emitted in the order of the detector: octaves in the
\* order they are processed, keypoints in the order of the list, orientations
\* in index order; with both sinks active the i-th frame record and the i-th
\* descriptor record belong to the same keypoint and orientation.
C17_EmissionOrder == [] RecordsPaired /\ [][RecordsInOrder]_vars

\* C17 witness: both files hold the records of two keypoints, the last that
\* of the second orientation of the second keypoint.
C17_Witness ==
  /\ pc = "keys" /\ fm["frm"].active /\ fm["dsc"].active
  /\ HasRecord(fs["frm"]) /\ HasRecord(fs["dsc"])
  /\ fs["frm"].last.angle = << 1, 1 >> /\ fs["dsc"].last.angle = << 1, 1 >>
  /\ fs["frm"].n > 2

\* C18 (as claimed): every code getopt_long returns for an option of the
\* command line has a case of its own in the switch, so that the default
\* branch with its assertion is never reached.
C18_AssertUnreachable ==
  /\ pc # "aborted"
  /\ pc \in {"parse", "check", "exited"} /\ optword # NoWord =>
       getopt_long(optword, optarg) \in Cases

\* C19: for an image whose basename overflows or whose input cannot be
\* opened no output file is opened; output files are opened only after the
\* input, each at most once, in the order descriptors, frames, meta, and
\* after a failed open the later ones stay unopened.
C19_OutputsAfterInput ==
  /\ fault \in {"basename", "input"} \/ pc \in {"basename", "fopen"} =>
       /\ \A s \in Files : fs[s].opens = 0
       /\ \A s \in Sinks : ~fm[s].file
       /\ gs.opens = 0
  /\ \A s \in Files : fs[s].opens <= 1
  /\ fs["frm"].opens = 1 /\ fm["dsc"].active => fs["dsc"].opens = 1
  /\ fs["met"].opens = 1 =>
       /\ fm["dsc"].active => fs["dsc"].opens = 1
       /\ fm["frm"].active => fs["frm"].opens = 1
  /\ fault = "sink" /\ fm["dsc"].active /\ fs["dsc"].opens = 0 =>
       fs["frm"].opens = 0 /\ fs["met"].opens = 0
  /\ fault = "sink" /\ fm["frm"].active /\ fs["frm"].opens = 0 =>
       fs["met"].opens = 0
  /\ pc \in {"open_dsc", "open_frm", "open_met"} => in

\* C19 witness: the descriptors file was opened, the open of the frames
\* file failed, and the image ended without a meta file.
C19_Witness ==
  /\ pc = "loop" /\ fault = "sink"
  /\ fs["dsc"].opens = 1 /\ fs["frm"].opens = 0
  /\ fm["met"].active /\ fs["met"].opens = 0

\* C20: the filter ends the octave loop after finitely many steps and finds
\* finitely many keypoints per octave (at most MaxOctaves and MaxKeys
\* here); then every image that was begun reaches done, and main, once in
\* its loop over the file names, returns.
C20_Terminates ==
  /\ (pc = "basename") ~> (pc = "done")
  /\ (pc = "loop") ~> (pc = "returned" /\ idx = NumImages)

\* C20 witness: main returned after a last image whose octave loop ran the
\* most octaves the filter delivers.
C20_Witness ==
  /\ pc = "returned" /\ idx = NumImages
  /\ steps = MaxOctaves + 1 /\ passes = MaxOctaves /\ expected > 0

====
